---- MODULE Spec2Model ----
(***************************************************************************)
(* A model of the polling loop of src/main.py (run_bot): the per-room      *)
(* cursor, the membership cache, the activity counters, the command        *)
(* processing against the "roomid" table and the moderation of messages.   *)
(* Message bodies are sequences of one-character strings so that the text  *)
(* functions (strip, count, findall, in) are computed as Python does.      *)
(***************************************************************************)
EXTENDS Integers, Sequences, FiniteSets, TLC

\* ---------------------------------------------------------------- bounds
\* total number of messages the users post over a behaviour
MaxMsgs == 2
\* last value of the clock
MaxTime == 1
\* largest value of a counter of the activity ledger
MaxCount == 4

\* ------------------------------------------------------ program constants
\* The thresholds, the reset interval and the room list come from the
\* environment (lines 12-18); small values are taken here so that every
\* threshold is crossed within the bounds.
\* MONITORED_ROOM_IDS, the rooms in iteration order (line 13)
MONITORED_ROOM_IDS == <<100, 200>>
STAMP_EMOJI_THRESHOLD == 3
MENTION_THRESHOLD == 2
COUNT_RESET_INTERVAL_HOURS == 1
POLLING_INTERVAL_SECONDS == 5
\* the 3600 of lines 166 and 246, in units of the model's clock
SecondsPerHour == 1

Rooms == {MONITORED_ROOM_IDS[i] : i \in 1..Len(MONITORED_ROOM_IDS)}

\* ------------------------------------------------------------- the text
ALL_EMOTICONS == <<
      <<":", ")">>,
      <<":", "(">>,
      <<":", "D">>,
      <<"8", "-", ")">>,
      <<":", "o">>,
      <<";", ")">>,
      <<";", "(">>,
      <<"(", "s", "w", "e", "a", "t", ")">>,
      <<":", "|">>,
      <<":", "*">>,
      <<":", "p">>,
      <<"(", "b", "l", "u", "s", "h", ")">>,
      <<":", "^", ")">>,
      <<"|", "-", ")">>,
      <<"(", "i", "n", "l", "o", "v", "e", ")">>,
      <<"]", ":", ")">>,
      <<"(", "t", "a", "l", "k", ")">>,
      <<"(", "y", "a", "w", "n", ")">>,
      <<"(", "p", "u", "k", "e", ")">>,
      <<"8", "-", "|">>,
      <<"(", "e", "m", "o", ")">>,
      <<":", "#", ")">>,
      <<"(", "n", "o", "d", ")">>,
      <<"(", "s", "h", "a", "k", "e", ")">>,
      <<"(", "^", "^", ";", ")">>,
      <<"(", "w", "h", "e", "w", ")">>,
      <<"(", "c", "l", "a", "p", ")">>,
      <<"(", "b", "o", "w", ")">>,
      <<"(", "r", "o", "g", "e", "r", ")">>,
      <<"(", "f", "l", "e", "x", ")">>,
      <<"(", "d", "a", "n", "c", "e", ")">>,
      <<":", "/">>,
      <<"(", "g", "o", "g", "o", ")">>,
      <<"(", "t", "h", "i", "n", "k", ")">>,
      <<"(", "p", "l", "e", "a", "s", "e", ")">>,
      <<"(", "q", "u", "i", "c", "k", ")">>,
      <<"(", "a", "n", "g", "e", "r", ")">>,
      <<"(", "d", "e", "v", "i", "l", ")">>,
      <<"(", "l", "i", "g", "h", "t", "b", "u", "l", "b", ")">>,
      <<"(", "*", ")">>,
      <<"(", "h", ")">>,
      <<"(", "F", ")">>,
      <<"(", "c", "r", "a", "c", "k", "e", "r", ")">>,
      <<"(", "e", "a", "t", ")">>,
      <<"(", "^", ")">>,
      <<"(", "c", "o", "f", "f", "e", "e", ")">>,
      <<"(", "b", "e", "e", "r", ")">>,
      <<"(", "h", "a", "n", "d", "s", "h", "a", "k", "e", ")">>,
      <<"(", "y", ")">>
   >>

Digits == {"0", "1", "2", "3", "4", "5", "6", "7", "8", "9"}
Whitespace == {" ", "\t", "\n", "\r"}

\* does sub occur in body at position i
OccursAt(body, sub, i) ==
    /\ i >= 1
    /\ i + Len(sub) - 1 <= Len(body)
    /\ SubSeq(body, i, i + Len(sub) - 1) = sub

\* str.count(sub) from position i: non-overlapping occurrences, left to right
RECURSIVE CountFrom(_, _, _)
CountFrom(body, sub, i) ==
    IF i + Len(sub) - 1 > Len(body) THEN 0
    ELSE IF OccursAt(body, sub, i) THEN 1 + CountFrom(body, sub, i + Len(sub))
    ELSE CountFrom(body, sub, i + 1)

StrCount(body, sub) == CountFrom(body, sub, 1)

\* sub in body
Contains(body, sub) == \E i \in 1..Len(body) : OccursAt(body, sub, i)

\* the index after the longest run of digits starting at i
RECURSIVE SkipDigits(_, _)
SkipDigits(body, i) ==
    IF i <= Len(body) /\ body[i] \in Digits THEN SkipDigits(body, i + 1) ELSE i

\* a match of  prefix \d+ \]  at position i: the index after it, or 0
TagEnd(body, prefix, i) ==
    IF ~OccursAt(body, prefix, i) THEN 0
    ELSE LET d == i + Len(prefix)
             e == SkipDigits(body, d)
         IN IF e > d /\ e <= Len(body) /\ body[e] = "]" THEN e + 1 ELSE 0

\* len(re.findall(prefix \d+ \], body)) from position i
RECURSIVE CountTagsFrom(_, _, _)
CountTagsFrom(body, prefix, i) ==
    IF i > Len(body) THEN 0
    ELSE LET e == TagEnd(body, prefix, i)
         IN IF e > 0 THEN 1 + CountTagsFrom(body, prefix, e)
            ELSE CountTagsFrom(body, prefix, i + 1)

RECURSIVE SumEmoticons(_, _, _)
SumEmoticons(body, emoticon_list, k) ==
    IF k > Len(emoticon_list) THEN 0
    ELSE StrCount(body, emoticon_list[k]) + SumEmoticons(body, emoticon_list, k + 1)

count_emoticons_in_message(message_body, emoticon_list) ==
    SumEmoticons(message_body, emoticon_list, 1)
    + CountTagsFrom(message_body, <<"[", "S", "T", "A", "M", "P", ":">>, 1)

count_personal_mentions(message_body) ==
    CountTagsFrom(message_body, <<"[", "T", "o", ":">>, 1)

\* str.strip()
RECURSIVE LStrip(_)
LStrip(s) == IF Len(s) > 0 /\ s[1] \in Whitespace THEN LStrip(Tail(s)) ELSE s
RECURSIVE RStrip(_)
RStrip(s) ==
    IF Len(s) > 0 /\ s[Len(s)] \in Whitespace THEN RStrip(SubSeq(s, 1, Len(s) - 1)) ELSE s
Strip(s) == RStrip(LStrip(s))

CMD_OK == <<"/", "c", "o", "m", "m", "a", "n", "d", " ", "O", "K">>
CMD_NO == <<"/", "c", "o", "m", "m", "a", "n", "d", " ", "N", "O">>
TOALL == <<"[", "t", "o", "a", "l", "l", "]">>


\* --------------------------------------------------------- the environment
\* the accounts that post; 9 is in no member list
Senders == {1, 55, 9}
\* what GET /rooms/{room_id}/members answers (line 168)
members_data(room_id) ==
    << [account_id |-> 1, role |-> "admin"], [account_id |-> 55, role |-> "member"] >>

B_OK == CMD_OK
B_NO == <<" ">> \o CMD_NO \o <<"\n">>
B_SMILE == <<":", ")">>
B_SMILE2 == <<":", ")", " ", ":", ")">>
B_TO == <<"[", "T", "o", ":", "1", "2", "]">>
B_TOALL == TOALL \o <<":", ")", "[", "T", "o", ":", "1", "]", "[", "T", "o", ":", "2", "]">>
Bodies == {B_OK, B_NO, B_SMILE, B_SMILE2, B_TO, B_TOALL}

\* the text functions on the bodies that are posted, computed once
StrippedOf == [b \in Bodies |-> Strip(b)]
ToAllIn == [b \in Bodies |-> Contains(b, TOALL)]
StampsIn == [b \in Bodies |-> count_emoticons_in_message(b, ALL_EMOTICONS)]
MentionsIn == [b \in Bodies |-> count_personal_mentions(b)]

\* line 201
IsCommandOK(message_body) == StrippedOf[message_body] = CMD_OK
\* a comparison of the body as it came, without strip()
IsCommandNOUnstripped(message_body) == message_body = CMD_NO
\* line 219
IsCommandNO(message_body) == StrippedOf[message_body] = CMD_NO
\* line 253
HasToAll(message_body) == ToAllIn[message_body]
\* lines 264 and 276: what the two counting functions find in a body
Detect(message_body) ==
    [stamps |-> count_emoticons_in_message(message_body, ALL_EMOTICONS),
     mentions |-> count_personal_mentions(message_body)]

\* what the users post: every body by the member, and by the admin and the
\* stranger the bodies whose handling reads the role
Postings ==
    ({55} \X Bodies) \cup ({1} \X {B_OK, B_NO, B_TOALL}) \cup ({9} \X {B_OK, B_TOALL})

\* which external calls of one message step fail: the select, insert and
\* delete on the table, and the first and the second post_message
FailFlags == [select : BOOLEAN, insert : BOOLEAN, delete : BOOLEAN,
              post1 : BOOLEAN, post2 : BOOLEAN]

VARIABLES
    pc,                        \* the position of run_bot in its loop
    current_time,              \* line 155
    enabled_room_ids,          \* line 160
    room_idx,                  \* the position of the for loop of line 163
    new_messages,              \* line 178
    msg_idx,                   \* the position of the for loop of line 184
    last_message_id_per_room,  \* line 147
    user_roles_per_room,       \* line 148
    user_activity_counts,      \* line 149
    roomid_table,              \* the rows of the "roomid" table, per room
    room_log,                  \* the messages of each room on the platform
    calls,                     \* the external calls of the message step just taken
    slept,                     \* seconds slept since the cycle ended
    last_step                  \* the step just taken

vars == << pc, current_time, enabled_room_ids, room_idx, new_messages, msg_idx,
           last_message_id_per_room, user_roles_per_room, user_activity_counts,
           roomid_table, room_log, calls, slept, last_step >>

\* ------------------------------------------------------------ the helpers
\* one external call: a table operation, change_user_permission or post_message
Call(op, room_id, notice, to, ok) ==
    [op |-> op, room |-> room_id, notice |-> notice, to |-> to, ok |-> ok]
Post(room_id, notice, to, failed) == Call("post_message", room_id, notice, to, ~failed)
Perm(room_id, account_id) == Call("change_user_permission", room_id, "readonly", account_id, TRUE)
TableOp(op, room_id, failed) == Call(op, room_id, "", 0, ~failed)

RECURSIVE SeqSum(_)
SeqSum(s) == IF s = <<>> THEN 0 ELSE Len(s[1]) + SeqSum(Tail(s))
PostedTotal == SeqSum([i \in 1..Len(MONITORED_ROOM_IDS) |-> room_log[MONITORED_ROOM_IDS[i]]])

\* the id the platform gives the next message of a room
NextMessageId(log) == 2 * Len(log) + 1

\* chatwork_api.get_messages(room_id, last_id): the messages after last_id
get_messages(room_id, last_id) ==
    SelectSeq(room_log[room_id], LAMBDA m : m.message_id > last_id)

\* {member['account_id']: member['role'] for member in members_data}
RoleDict(md) ==
    [a \in {md[i].account_id : i \in 1..Len(md)} |->
        md[CHOOSE i \in 1..Len(md) : md[i].account_id = a /\
            \A j \in (i+1)..Len(md) : md[j].account_id # a].role ]

\* the role of line 194
SenderRole(roles, sender_id) ==
    IF sender_id \in DOMAIN roles THEN roles[sender_id] ELSE "unknown"

\* ------------------------------------------------- the command processing
\* a role test that lets every sender but a member through
IsAdminLoose(sender_role) == sender_role # "member"
\* line 202, line 220
IsAdmin(sender_role) == sender_role = "admin"
\* a role test that stops only the admin
IsMemberLoose(sender_role) == sender_role # "admin"
\* line 254
IsMember(sender_role) == sender_role = "member"

\* a select that never finds the room
ExistingRoomNever(table, room_id) == FALSE
\* the outcome of the select of line 204: existing_room is not empty
ExistingRoom(table, room_id) == table[room_id] > 0

\* lines 201-217, "/command OK"
CommandOK(room_id, sender_role, table, f) ==
    IF ~IsAdmin(sender_role)
    THEN [table |-> table, raised |-> f.post1,
          calls |-> << Post(room_id, "denied", 0, f.post1) >>]
    ELSE IF f.select
    THEN [table |-> table, raised |-> f.post1,
          calls |-> << TableOp("select", room_id, TRUE),
                       Post(room_id, "enable_failed", 0, f.post1) >>]
    ELSE IF ~ExistingRoom(table, room_id)
    THEN IF f.insert
         THEN [table |-> table, raised |-> f.post1,
               calls |-> << TableOp("select", room_id, FALSE),
                            TableOp("insert", room_id, TRUE),
                            Post(room_id, "enable_failed", 0, f.post1) >>]
         ELSE [table |-> [table EXCEPT ![room_id] = @ + 1],
               raised |-> f.post1 /\ f.post2,
               calls |-> << TableOp("select", room_id, FALSE),
                            TableOp("insert", room_id, FALSE),
                            Post(room_id, "enabled", 0, f.post1) >>
                         \o (IF f.post1
                             THEN << Post(room_id, "enable_failed", 0, f.post2) >>
                             ELSE << >>)]
    ELSE [table |-> table, raised |-> f.post1 /\ f.post2,
          calls |-> << TableOp("select", room_id, FALSE),
                       Post(room_id, "already_enabled", 0, f.post1) >>
                    \o (IF f.post1
                        THEN << Post(room_id, "enable_failed", 0, f.post2) >>
                        ELSE << >>)]

\* a delete without the filter on the room: every record goes
DeleteRowsUnfiltered(table, room_id) == [r \in DOMAIN table |-> 0]

\* line 222: delete().eq("room_id_column", room_id) removes the rows of the
\* room, none when there is none, and no row of another room
DeleteRows(table, room_id) == [table EXCEPT ![room_id] = 0]

\* lines 219-231, "/command NO"
CommandNO(room_id, sender_role, table, f) ==
    IF ~IsAdmin(sender_role)
    THEN [table |-> table, raised |-> f.post1,
          calls |-> << Post(room_id, "denied", 0, f.post1) >>]
    ELSE IF f.delete
    THEN [table |-> table, raised |-> f.post1,
          calls |-> << TableOp("delete", room_id, TRUE),
                       Post(room_id, "disable_failed", 0, f.post1) >>]
    ELSE [table |-> DeleteRows(table, room_id),
          raised |-> f.post1 /\ f.post2,
          calls |-> << TableOp("delete", room_id, FALSE),
                       Post(room_id, "disabled", 0, f.post1) >>
                    \o (IF f.post1
                        THEN << Post(room_id, "disable_failed", 0, f.post2) >>
                        ELSE << >>)]

\* ------------------------------------------------------- the moderation
\* a gate that asks the table at every message instead of the set read at
\* the start of the cycle
RoomEnabledLive(room_id, enabled) == roomid_table[room_id] > 0

\* a gate that lets every room through
RoomEnabledAlways(room_id, enabled) == TRUE
\* line 234
RoomEnabled(room_id, enabled) == room_id \in enabled

HasCounter(counts, room_id, sender_id) ==
    room_id \in DOMAIN counts /\ sender_id \in DOMAIN counts[room_id]

\* d[k] = v on a dict
DictSet(d, k, v) == [x \in (DOMAIN d) \cup {k} |-> IF x = k THEN v ELSE d[x]]
EmptyDict == [x \in {} |-> 0]

\* lines 240-243
EnsureCounter(counts, room_id, sender_id, now) ==
    LET c1 == IF room_id \in DOMAIN counts THEN counts ELSE DictSet(counts, room_id, EmptyDict)
    IN IF sender_id \in DOMAIN c1[room_id] THEN c1
       ELSE DictSet(c1, room_id,
                DictSet(c1[room_id], sender_id,
                    [stamps |-> 0, mentions |-> 0, last_reset_time |-> now]))

\* a test that finds every counter due, whatever its age
ResetDueAlways(counter, now) == TRUE

\* a test that leaves out the counter whose age is exactly the interval
ResetDueStrict(counter, now) ==
    now - counter.last_reset_time > COUNT_RESET_INTERVAL_HOURS * SecondsPerHour

\* the test of line 246; (now - t) / 3600 >= H is now - t >= H * 3600
ResetDue(counter, now) ==
    now - counter.last_reset_time >= COUNT_RESET_INTERVAL_HOURS * SecondsPerHour

\* lines 246-250
ResetIfDue(counter, now) ==
    IF ResetDue(counter, now)
    THEN [stamps |-> 0, mentions |-> 0, last_reset_time |-> now]
    ELSE counter

SetCounter(counts, room_id, sender_id, counter) ==
    DictSet(counts, room_id, DictSet(counts[room_id], sender_id, counter))

\* lines 264-285, the counting of a message without [toall]; detected holds
\* detected_stamp_emoji_count and detected_mention_count
CountAndAct(room_id, sender_id, detected, counter, f) ==
    LET s == counter.stamps + detected.stamps
        stampHit == s >= STAMP_EMOJI_THRESHOLD
        stampCalls == IF stampHit
                      THEN << Perm(room_id, sender_id), Post(room_id, "stamp", sender_id, f.post1) >>
                      ELSE << >>
        stampRaised == stampHit /\ f.post1
        c2 == [counter EXCEPT !.stamps = IF stampHit /\ ~stampRaised THEN 0 ELSE s]
        m == c2.mentions + detected.mentions
        mentionHit == m >= MENTION_THRESHOLD
        mentionFailed == IF stampHit THEN f.post2 ELSE f.post1
        mentionCalls == IF mentionHit
                        THEN << Perm(room_id, sender_id),
                                Post(room_id, "mention", sender_id, mentionFailed) >>
                        ELSE << >>
        mentionRaised == mentionHit /\ mentionFailed
        c3 == [c2 EXCEPT !.mentions = IF mentionHit /\ ~mentionRaised THEN 0 ELSE m]
    IN IF stampRaised
       THEN [counter |-> c2, calls |-> stampCalls, raised |-> TRUE]
       ELSE [counter |-> c3, calls |-> stampCalls \o mentionCalls, raised |-> mentionRaised]

\* lines 253-261, a message with [toall]
ToAllAct(room_id, sender_id, sender_role, counter, f) ==
    IF IsMember(sender_role)
    THEN [counter |-> counter, raised |-> f.post1,
          calls |-> << Perm(room_id, sender_id), Post(room_id, "toall", sender_id, f.post1) >>]
    ELSE [counter |-> counter, raised |-> FALSE, calls |-> << >>]

\* lines 240-285
Moderate(room_id, sender_id, sender_role, message_body, detected, counts, now, f) ==
    LET c0 == EnsureCounter(counts, room_id, sender_id, now)
        counter == ResetIfDue(c0[room_id][sender_id], now)
        r == IF HasToAll(message_body)
             THEN ToAllAct(room_id, sender_id, sender_role, counter, f)
             ELSE CountAndAct(room_id, sender_id, detected, counter, f)
    IN [counts |-> SetCounter(c0, room_id, sender_id, r.counter),
        calls |-> r.calls, raised |-> r.raised]

\* lines 185-285, the body of the message loop; detected is what the counting
\* functions find in the body of the message
Dispatch(room_id, message, detected, roles, enabled, counts, table, now, f) ==
    LET sender_id == message.account_id
        message_body == message.body
        sender_role == SenderRole(roles, sender_id)
    IN IF IsCommandOK(message_body)
       THEN LET r == CommandOK(room_id, sender_role, table, f)
            IN [counts |-> counts, table |-> r.table, calls |-> r.calls, raised |-> r.raised]
       ELSE IF IsCommandNO(message_body)
       THEN LET r == CommandNO(room_id, sender_role, table, f)
            IN [counts |-> counts, table |-> r.table, calls |-> r.calls, raised |-> r.raised]
       ELSE IF ~RoomEnabled(room_id, enabled)
       THEN [counts |-> counts, table |-> table, calls |-> << >>, raised |-> FALSE]
       ELSE LET r == Moderate(room_id, sender_id, sender_role, message_body, detected,
                                 counts, now, f)
            IN [counts |-> r.counts, table |-> table, calls |-> r.calls, raised |-> r.raised]

\* ------------------------------------------------------------- the state
\* lines 147-149; the table outlives the process: the first room has its
\* row when the loop starts and the second has none
Init ==
    /\ pc = "idle"
    /\ current_time = 0
    /\ enabled_room_ids = {}
    /\ room_idx = 1
    /\ new_messages = << >>
    /\ msg_idx = 1
    /\ last_message_id_per_room = [r \in Rooms |-> 0]
    /\ user_roles_per_room = EmptyDict
    /\ user_activity_counts = EmptyDict
    /\ roomid_table = [r \in Rooms |-> IF r = 100 THEN 1 ELSE 0]
    /\ room_log = [r \in Rooms |-> << >>]
    /\ calls = << >>
    /\ slept = 0
    /\ last_step = "init"

Room == MONITORED_ROOM_IDS[room_idx]

\* where the for loop of line 163 goes after the room at room_idx
AfterRoom(idx) == IF idx + 1 > Len(MONITORED_ROOM_IDS) THEN "sleep" ELSE "refresh"

\* a test that fetches the roles of a room once and never again
NeedsRefreshOnlyAbsent(roles_per_room, room_id, now) == room_id \notin DOMAIN roles_per_room

\* the test of lines 165-166
NeedsRefresh(roles_per_room, room_id, now) ==
    IF room_id \notin DOMAIN roles_per_room THEN TRUE
    ELSE now - roles_per_room[room_id].last_update_time >= 1 * SecondsPerHour

\* the number of messages of the batch instead of the id of its last one
LastMessageIdAsCount(messages, current_room_last_message_id) == Len(messages)
\* the message id the cursor is set to, line 288
LastMessageId(messages, current_room_last_message_id) ==
    IF messages # << >> THEN messages[Len(messages)].message_id
    ELSE current_room_last_message_id

\* ----------------------------------------------------------- the actions
\* a user posts a message in a room.  The loop reads a room's messages once
\* in a cycle, so a message that arrives during a cycle is read as one that
\* arrived before the cycle or after it: the users post between two cycles.
UserPosting(postings) ==
    /\ pc = "idle"
    /\ PostedTotal < MaxMsgs
    /\ \E r \in Rooms, p \in postings :
         room_log' = [room_log EXCEPT ![r] =
            Append(@, [message_id |-> NextMessageId(room_log[r]),
                       account_id |-> p[1], body |-> p[2]])]
    /\ last_step' = "post"
    /\ calls' = << >>
    /\ UNCHANGED << pc, current_time, enabled_room_ids, room_idx, new_messages, msg_idx,
                    last_message_id_per_room, user_roles_per_room, user_activity_counts,
                    roomid_table, slept >>

UserPosts == UserPosting(Postings)

\* lines 154-160: the clock and the enabled rooms are read
CycleStart ==
    /\ pc = "idle"
    /\ \E t \in current_time..(current_time + 1) :
         /\ t <= MaxTime
         /\ current_time' = t
    /\ enabled_room_ids' = {r \in Rooms : roomid_table[r] > 0}
    /\ room_idx' = 1
    /\ pc' = "refresh"
    /\ slept' = 0
    /\ calls' = << >>
    /\ last_step' = "cycle_start"
    /\ UNCHANGED << new_messages, msg_idx, last_message_id_per_room, user_roles_per_room,
                    user_activity_counts, roomid_table, room_log >>

\* line 159 raises: the cycle ends in the handler of line 290
CycleStartFails ==
    /\ pc = "idle"
    /\ \E t \in current_time..(current_time + 1) :
         /\ t <= MaxTime
         /\ current_time' = t
    /\ pc' = "backoff"
    /\ slept' = 0
    /\ calls' = << >>
    /\ last_step' = "read_failed"
    /\ UNCHANGED << enabled_room_ids, room_idx, new_messages, msg_idx,
                    last_message_id_per_room, user_roles_per_room, user_activity_counts,
                    roomid_table, room_log >>

\* lines 165-171: the roles of the room are read again
RefreshOk ==
    /\ pc = "refresh"
    /\ NeedsRefresh(user_roles_per_room, Room, current_time)
    /\ user_roles_per_room' = DictSet(user_roles_per_room, Room,
            [roles |-> RoleDict(members_data(Room)), last_update_time |-> current_time])
    /\ pc' = "fetch"
    /\ calls' = << >>
    /\ last_step' = "refresh_ok"
    /\ UNCHANGED << current_time, enabled_room_ids, room_idx, new_messages, msg_idx,
                    last_message_id_per_room, user_activity_counts, roomid_table,
                    room_log, slept >>

\* lines 172-174: get_room_members raises, the room is skipped
RefreshFails ==
    /\ pc = "refresh"
    /\ NeedsRefresh(user_roles_per_room, Room, current_time)
    /\ pc' = AfterRoom(room_idx)
    /\ room_idx' = room_idx + 1
    /\ calls' = << >>
    /\ last_step' = "refresh_failed"
    /\ UNCHANGED << current_time, enabled_room_ids, new_messages, msg_idx,
                    last_message_id_per_room, user_roles_per_room, user_activity_counts,
                    roomid_table, room_log, slept >>

\* lines 165-166: the snapshot is less than an hour old
RefreshSkipped ==
    /\ pc = "refresh"
    /\ ~NeedsRefresh(user_roles_per_room, Room, current_time)
    /\ pc' = "fetch"
    /\ calls' = << >>
    /\ last_step' = "refresh_skipped"
    /\ UNCHANGED << current_time, enabled_room_ids, room_idx, new_messages, msg_idx,
                    last_message_id_per_room, user_roles_per_room, user_activity_counts,
                    roomid_table, room_log, slept >>

\* lines 176-183: the messages after the cursor are fetched
FetchOk ==
    /\ pc = "fetch"
    /\ LET current_room_last_message_id == last_message_id_per_room[Room]
           fetched == get_messages(Room, current_room_last_message_id)
       IN /\ new_messages' = fetched
          /\ IF fetched # << >>
             THEN /\ pc' = "msg"
                  /\ room_idx' = room_idx
             ELSE /\ pc' = AfterRoom(room_idx)
                  /\ room_idx' = room_idx + 1
    /\ msg_idx' = 1
    /\ calls' = << >>
    /\ last_step' = "fetch_ok"
    /\ UNCHANGED << current_time, enabled_room_ids, last_message_id_per_room,
                    user_roles_per_room, user_activity_counts, roomid_table, room_log, slept >>

\* get_messages raises and nothing catches it before the handler of line 290
FetchFailsAborting ==
    /\ pc = "fetch"
    /\ pc' = "backoff"
    /\ calls' = << >>
    /\ last_step' = "fetch_failed"
    /\ UNCHANGED << current_time, enabled_room_ids, room_idx, new_messages, msg_idx,
                    last_message_id_per_room, user_roles_per_room, user_activity_counts,
                    roomid_table, room_log, slept >>

\* lines 179-181: get_messages raises, the room is skipped
FetchFails ==
    /\ pc = "fetch"
    /\ pc' = AfterRoom(room_idx)
    /\ room_idx' = room_idx + 1
    /\ calls' = << >>
    /\ last_step' = "fetch_failed"
    /\ UNCHANGED << current_time, enabled_room_ids, new_messages, msg_idx,
                    last_message_id_per_room, user_roles_per_room, user_activity_counts,
                    roomid_table, room_log, slept >>

\* no counter of the ledger is above MaxCount
CountsBounded(counts) ==
    \A r \in DOMAIN counts : \A a \in DOMAIN counts[r] :
        counts[r][a].stamps <= MaxCount /\ counts[r][a].mentions <= MaxCount

\* the failures that a message step can meet: a message that is no command
\* makes no call on the table
FlagsFor(message) ==
    IF IsCommandOK(message.body) \/ IsCommandNO(message.body) THEN FailFlags
    ELSE {f \in FailFlags : ~f.select /\ ~f.insert /\ ~f.delete}

\* lines 184-285: one message of the batch; an exception that leaves the
\* message loop ends the cycle in the handler of line 290
MessageStep ==
    /\ pc = "msg"
    /\ \E detected \in {Detect(new_messages[msg_idx].body)},
          f \in FlagsFor(new_messages[msg_idx]) :
         LET r == Dispatch(Room, new_messages[msg_idx], detected,
                           user_roles_per_room[Room].roles, enabled_room_ids,
                           user_activity_counts, roomid_table, current_time, f)
         IN /\ CountsBounded(r.counts)
            /\ user_activity_counts' = r.counts
            /\ roomid_table' = r.table
            /\ calls' = r.calls
            /\ IF r.raised
               THEN /\ pc' = "backoff"
                    /\ msg_idx' = msg_idx
                    /\ last_step' = "msg_raised"
               ELSE /\ pc' = IF msg_idx = Len(new_messages) THEN "advance" ELSE "msg"
                    /\ msg_idx' = msg_idx + 1
                    /\ last_step' = "msg"
    /\ UNCHANGED << current_time, enabled_room_ids, room_idx, new_messages,
                    user_roles_per_room, room_log, slept >>

\* a message loop that moves the cursor at each message
ProcessMessageMovingCursor ==
    /\ MessageStep
    /\ last_message_id_per_room' = [last_message_id_per_room EXCEPT ![Room] =
            new_messages[msg_idx].message_id]

\* the message loop leaves the cursor alone
ProcessMessage ==
    /\ MessageStep
    /\ UNCHANGED last_message_id_per_room

\* line 288: the cursor is set after the last message of the batch
AdvanceCursor ==
    /\ pc = "advance"
    /\ last_message_id_per_room' = [last_message_id_per_room EXCEPT ![Room] =
            LastMessageId(new_messages, @)]
    /\ pc' = AfterRoom(room_idx)
    /\ room_idx' = room_idx + 1
    /\ calls' = << >>
    /\ last_step' = "advance"
    /\ UNCHANGED << current_time, enabled_room_ids, new_messages, msg_idx,
                    user_roles_per_room, user_activity_counts, roomid_table, room_log, slept >>

\* a handler that logs the exception and raises it again: the loop is left
BackoffExits ==
    /\ pc = "backoff"
    /\ pc' = "exited"
    /\ calls' = << >>
    /\ last_step' = "backoff"
    /\ UNCHANGED << current_time, enabled_room_ids, room_idx, new_messages, msg_idx,
                    last_message_id_per_room, user_roles_per_room, user_activity_counts,
                    roomid_table, room_log, slept >>

\* lines 290-293: the handler of the cycle sleeps twice the interval
Backoff ==
    /\ pc = "backoff"
    /\ slept' = slept + POLLING_INTERVAL_SECONDS * 2
    /\ pc' = "sleep"
    /\ calls' = << >>
    /\ last_step' = "backoff"
    /\ UNCHANGED << current_time, enabled_room_ids, room_idx, new_messages, msg_idx,
                    last_message_id_per_room, user_roles_per_room, user_activity_counts,
                    roomid_table, room_log >>

\* line 295; at the top of the loop the values of the loop variables are dead
\* (each is assigned again before it is read), so they are forgotten here
Sleep ==
    /\ pc = "sleep"
    /\ slept' = slept + POLLING_INTERVAL_SECONDS
    /\ pc' = "idle"
    /\ enabled_room_ids' = {}
    /\ room_idx' = 1
    /\ new_messages' = << >>
    /\ msg_idx' = 1
    /\ calls' = << >>
    /\ last_step' = "sleep"
    /\ UNCHANGED << current_time, last_message_id_per_room, user_roles_per_room,
                    user_activity_counts, roomid_table, room_log >>

Next ==
    \/ UserPosts
    \/ CycleStart
    \/ CycleStartFails
    \/ RefreshOk
    \/ RefreshFails
    \/ RefreshSkipped
    \/ FetchOk
    \/ FetchFails
    \/ ProcessMessage
    \/ AdvanceCursor
    \/ Backoff
    \/ Sleep

Spec == Init /\ [][Next]_vars

\* The steps of the bot, as opposed to those of the users of the rooms.
Bot ==
    \/ CycleStart
    \/ CycleStartFails
    \/ RefreshOk
    \/ RefreshFails
    \/ RefreshSkipped
    \/ FetchOk
    \/ FetchFails
    \/ ProcessMessage
    \/ AdvanceCursor
    \/ Backoff
    \/ Sleep

\* run_bot is one sequential thread and every call it makes returns or
\* raises (time.sleep returns) : whenever the bot has a next statement it
\* executes it.  Nothing is assumed of the users.
\* Whether the loop goes on does not depend on what the messages say but on
\* which calls fail, so the users of this specification post two kinds of
\* message only: one that is counted and notified, one that is a command.
LivePostings == {<<55, B_SMILE2>>, <<1, B_NO>>}
LiveUserPosts == UserPosting(LivePostings)
LiveNext == LiveUserPosts \/ Bot
LiveSpec == Init /\ [][LiveNext]_vars /\ WF_vars(Bot)

\* ------------------------------------------------------------ the claims
\* the message a step from pc = "msg" processes, its sender and its role
CurMsg == new_messages[msg_idx]
CurSender == CurMsg.account_id
CurRole == SenderRole(user_roles_per_room[Room].roles, CurSender)
CurIsCommand == StrippedOf[CurMsg.body] \in {CMD_OK, CMD_NO}

\* the message the step just taken processed, when it was a message step
MsgDone == last_step \in {"msg", "msg_raised"}
LastMsg == IF last_step = "msg_raised" THEN new_messages[msg_idx] ELSE new_messages[msg_idx - 1]
LastRole == SenderRole(user_roles_per_room[Room].roles, LastMsg.account_id)

IsPrefix(s, t) == Len(s) <= Len(t) /\ SubSeq(t, 1, Len(s)) = s

OpsOf(cs) == [i \in 1..Len(cs) |-> cs[i].op]
CountCalls(cs, op, notice) ==
    Cardinality({i \in 1..Len(cs) : cs[i].op = op /\ cs[i].notice = notice})
ModerationNotices == {"toall", "stamp", "mention"}
ModerationFailed(cs) ==
    \E i \in 1..Len(cs) : cs[i].notice \in ModerationNotices /\ ~cs[i].ok
AllOk(cs) == \A i \in 1..Len(cs) : cs[i].ok

\* C1: every room's cursor starts at 0 and no step of the loop, failed or
\* not, makes it smaller.
C1_CursorMonotonic ==
    /\ \A r \in Rooms : last_message_id_per_room[r] = 0
    /\ [][\A r \in Rooms : last_message_id_per_room'[r] >= last_message_id_per_room[r]]_vars

\* the cursor of a room has been set to the id of the second message of the room
C1_Witness ==
    /\ last_step = "advance"
    /\ \E r \in Rooms : last_message_id_per_room[r] = 3

\* C2: a failed call of a moderation action does not end the message loop:
\* the loop goes on to the next message or to the cursor update.
C2_ModerationFailureCaught ==
    [][(pc = "msg" /\ ModerationFailed(calls')) => pc' \in {"msg", "advance"}]_vars

\* C3: the cursor changes only in the step after the last message of a
\* non-empty batch, to the id of that message; when the message loop is left
\* by an exception the cursor is unchanged and the batch is still what
\* get_messages answers for the room.
C3_CursorAtBatchEnd ==
    [][ /\ (last_message_id_per_room' # last_message_id_per_room) =>
              /\ pc = "advance"
              /\ new_messages # << >>
              /\ msg_idx = Len(new_messages) + 1
              /\ last_message_id_per_room' = [last_message_id_per_room EXCEPT ![Room] =
                      new_messages[Len(new_messages)].message_id]
        /\ (pc = "msg" /\ pc' = "backoff") =>
              /\ last_message_id_per_room' = last_message_id_per_room
              /\ IsPrefix(new_messages, get_messages(Room, last_message_id_per_room'[Room]))
      ]_vars

\* the second message of a batch raised: the cursor is where it was
C3_Witness ==
    /\ last_step = "msg_raised"
    /\ msg_idx = 2
    /\ last_message_id_per_room[Room] = 0

\* the counter of the sender of the message being processed, after the lazy
\* creation and the reset of the time window
CurCounter ==
    LET c0 == EnsureCounter(user_activity_counts, Room, CurSender, current_time)
    IN ResetIfDue(c0[Room][CurSender], current_time)
CurCounts == RoomEnabled(Room, enabled_room_ids) /\ ~CurIsCommand /\ ~HasToAll(CurMsg.body)
StampCrossing ==
    /\ pc = "msg"
    /\ CurCounts
    /\ CurCounter.stamps + StampsIn[CurMsg.body] >= STAMP_EMOJI_THRESHOLD

\* C4: a message that brings stampCount to the threshold gets exactly one
\* downgrade and one stamp notification, and leaves stampCount at 0.
C4_StampCrossingOnce ==
    [][StampCrossing =>
          /\ CountCalls(calls', "change_user_permission", "readonly") >= 1
          /\ CountCalls(calls', "post_message", "stamp") = 1
          /\ user_activity_counts'[Room][CurSender].stamps = 0
          /\ (CurCounter.mentions + MentionsIn[CurMsg.body] < MENTION_THRESHOLD) =>
                user_activity_counts'[Room][CurSender].mentions =
                    CurCounter.mentions + MentionsIn[CurMsg.body]]_vars

\* C5: a message whose trimmed body is a command changes no counter and
\* makes no permission change.
C5_CommandNeverCounts ==
    [][(pc = "msg" /\ CurIsCommand) =>
          /\ user_activity_counts' = user_activity_counts
          /\ \A i \in 1..Len(calls') : calls'[i].op # "change_user_permission"]_vars

\* a command with blanks around it, sent by the member in an enabled room,
\* has been processed
C5_Witness ==
    /\ MsgDone
    /\ LastMsg.body = B_NO
    /\ LastMsg.account_id = 55
    /\ Room \in enabled_room_ids

\* C6: the table never holds two rows of a room; an admin's "/command OK"
\* whose calls all succeed inserts the row and posts "enabled" when the room
\* has none, and posts "already enabled" and inserts nothing when it has one.
C6_EnableIdempotent ==
    /\ \A r \in Rooms : roomid_table[r] <= 1
    /\ [][ /\ \A r \in Rooms : roomid_table'[r] <= 1
           /\ (pc = "msg" /\ StrippedOf[CurMsg.body] = CMD_OK /\ CurRole = "admin" /\ AllOk(calls')) =>
                 IF roomid_table[Room] = 0
                 THEN /\ roomid_table' = [roomid_table EXCEPT ![Room] = 1]
                      /\ OpsOf(calls') = << "select", "insert", "post_message" >>
                      /\ calls'[3].notice = "enabled"
                 ELSE /\ roomid_table' = roomid_table
                      /\ OpsOf(calls') = << "select", "post_message" >>
                      /\ calls'[2].notice = "already_enabled"
         ]_vars

\* the second of two "/command OK" of the admin in one batch has been answered
\* "already enabled"
C6_Witness ==
    /\ last_step = "msg"
    /\ msg_idx = 3
    /\ new_messages[1].body = CMD_OK /\ new_messages[1].account_id = 1
    /\ new_messages[2].body = CMD_OK /\ new_messages[2].account_id = 1
    /\ Len(calls) = 2 /\ calls[2].notice = "already_enabled" /\ calls[2].ok
    /\ roomid_table[Room] = 1
    /\ Room \notin enabled_room_ids

\* C7: the table changes only in the step of a command of an admin; a
\* command of another sender is answered "denied" and nothing else happens.
C7_OnlyAdminChangesStore ==
    [][ /\ (roomid_table' # roomid_table) =>
              (pc = "msg" /\ CurIsCommand /\ CurRole = "admin")
        /\ (pc = "msg" /\ CurIsCommand /\ CurRole # "admin") =>
              /\ roomid_table' = roomid_table
              /\ user_activity_counts' = user_activity_counts
              /\ Len(calls') = 1
              /\ calls'[1].op = "post_message" /\ calls'[1].notice = "denied"
      ]_vars

\* the account that is in no member list has sent "/command OK"
C7_Witness ==
    /\ last_step = "msg"
    /\ LastMsg.account_id = 9
    /\ LastMsg.body = CMD_OK
    /\ LastRole = "unknown"
    /\ Len(calls) = 1 /\ calls[1].notice = "denied"

\* C8: in a room that is not in the enabled set of the cycle, a message that
\* is no command changes nothing and makes no call, and a command of an admin
\* is still run on the table.
C8_DisabledRoomIgnored ==
    [][(pc = "msg" /\ Room \notin enabled_room_ids) =>
          IF ~CurIsCommand
          THEN /\ user_activity_counts' = user_activity_counts
               /\ roomid_table' = roomid_table
               /\ calls' = << >>
          ELSE (CurRole = "admin") =>
               /\ calls'[1].op \in {"select", "delete"}
               /\ (calls'[1].ok /\ StrippedOf[CurMsg.body] = CMD_NO) => roomid_table'[Room] = 0
               /\ (AllOk(calls') /\ StrippedOf[CurMsg.body] = CMD_OK) => roomid_table'[Room] = 1
      ]_vars

\* in a room outside the enabled set the admin's "/command OK" has inserted
\* the row and the member's [toall] after it, in the same batch, did nothing
C8_Witness ==
    /\ pc = "advance"
    /\ Room \notin enabled_room_ids
    /\ Len(new_messages) = 2
    /\ new_messages[1].body = CMD_OK /\ new_messages[1].account_id = 1
    /\ new_messages[2].body = B_TOALL /\ new_messages[2].account_id = 55
    /\ roomid_table[Room] = 1
    /\ calls = << >>
    /\ Room \notin DOMAIN user_activity_counts

\* C9: a [toall] message in an enabled room: a member gets one downgrade and
\* one notification naming the member, any other sender gets none, and the
\* message adds nothing to either counter.
C9_BroadcastRule ==
    [][(pc = "msg" /\ Room \in enabled_room_ids /\ ~CurIsCommand /\ HasToAll(CurMsg.body)) =>
          /\ IF CurRole = "member"
             THEN /\ Len(calls') = 2
                  /\ calls'[1] = Perm(Room, CurSender)
                  /\ calls'[2].op = "post_message" /\ calls'[2].notice = "toall"
                  /\ calls'[2].to = CurSender
             ELSE calls' = << >>
          /\ LET after == user_activity_counts'[Room][CurSender]
             IN IF HasCounter(user_activity_counts, Room, CurSender)
                THEN /\ after.stamps <= user_activity_counts[Room][CurSender].stamps
                     /\ after.mentions <= user_activity_counts[Room][CurSender].mentions
                ELSE after.stamps = 0 /\ after.mentions = 0
      ]_vars

\* the member, with a stamp counted before, has sent [toall] with an emoticon
\* and two mentions and has been downgraded and notified
C9_Witness ==
    /\ last_step = "msg"
    /\ LastMsg.body = B_TOALL
    /\ LastMsg.account_id = 55
    /\ Len(calls) = 2 /\ calls[2].notice = "toall" /\ calls[2].ok
    /\ user_activity_counts[Room][55].stamps = 1
    /\ user_activity_counts[Room][55].mentions = 0

\* C10: a failed refresh or fetch of a room leaves the cursors and the
\* counters alone and hands the cycle to the next room.
C10_RoomFailureIsolated ==
    [][(\/ (pc = "refresh" /\ pc' # "fetch")
        \/ (pc = "fetch" /\ last_step' = "fetch_failed")) =>
          /\ last_message_id_per_room' = last_message_id_per_room
          /\ user_activity_counts' = user_activity_counts
          /\ room_idx' = room_idx + 1
          /\ (room_idx < Len(MONITORED_ROOM_IDS)) => pc' = "refresh"
          /\ (room_idx = Len(MONITORED_ROOM_IDS)) => pc' = "sleep"
      ]_vars

\* the first room has messages and has never been refreshed with success,
\* and the second room's batch has been processed in this cycle
C10_Witness ==
    /\ pc = "advance"
    /\ room_idx = 2
    /\ MONITORED_ROOM_IDS[1] \notin DOMAIN user_roles_per_room
    /\ room_log[MONITORED_ROOM_IDS[1]] # << >>
    /\ last_message_id_per_room[MONITORED_ROOM_IDS[1]] = 0

\* ---------------------------------------------------------------- C11
ErrorNotices == {"enable_failed", "disable_failed"}
ErrorNoticePosted(cs) ==
    \E i \in 1..Len(cs) : cs[i].op = "post_message" /\ cs[i].notice \in ErrorNotices

\* C11: when an administrator's command ends with the notice 'failed to
\* enable' or 'failed to disable', the store holds for every room the same
\* record as before the command.
C11_ErrorNoticeMeansNotApplied ==
    [][(pc = "msg" /\ CurIsCommand /\ IsAdmin(CurRole) /\ ErrorNoticePosted(calls'))
          => roomid_table' = roomid_table]_vars

\* ---------------------------------------------------------------- C12
CycleBegins == CycleStart \/ CycleStartFails

\* C12: no failure in a poll cycle ends the polling loop: whatever has
\* happened, failed cycle or not, a new cycle starts again later.
C12_LoopNeverEnds == []<><<CycleBegins>>_vars

\* a cycle has just started although an earlier cycle ended in the handler,
\* abandoning the batch of a room after it had counted a message
C12_Witness ==
    /\ last_step = "cycle_start"
    /\ \E r \in DOMAIN user_activity_counts :
          /\ room_log[r] # << >>
          /\ last_message_id_per_room[r] = 0
          /\ \E a \in DOMAIN user_activity_counts[r] : user_activity_counts[r][a].stamps > 0

\* ---------------------------------------------------------------- C13
\* the counter of the sender of the current message, before and after the step
HadCounter == pc = "msg" /\ HasCounter(user_activity_counts, Room, CurSender)
OldCounter == user_activity_counts[Room][CurSender]
NewCounter == user_activity_counts'[Room][CurSender]
InWindow == current_time - OldCounter.last_reset_time < COUNT_RESET_INTERVAL_HOURS * SecondsPerHour

\* C13 as stated: within the reset window the message of a sender leaves
\* stampCount and mentionCount at least as large as the sender's previous
\* message left them.
C13_NonDecreasingInWindow ==
    [][(HadCounter /\ InWindow)
          => /\ NewCounter.stamps >= OldCounter.stamps
             /\ NewCounter.mentions >= OldCounter.mentions]_vars

\* C13 amended: within the reset window a counter after the sender's message
\* is at least what the previous message left, unless this message brought
\* it to its threshold, in which case it is 0.
C13_NonDecreasingUnlessCrossing ==
    [][(HadCounter /\ InWindow)
          => /\ \/ NewCounter.stamps >= OldCounter.stamps
                \/ /\ OldCounter.stamps + StampsIn[CurMsg.body] >= STAMP_EMOJI_THRESHOLD
                   /\ NewCounter.stamps = 0
             /\ \/ NewCounter.mentions >= OldCounter.mentions
                \/ /\ OldCounter.mentions + MentionsIn[CurMsg.body] >= MENTION_THRESHOLD
                   /\ NewCounter.mentions = 0]_vars

\* the second message of a sender, in the window, has raised the counter the
\* first one left
C13_Witness ==
    /\ last_step = "msg"
    /\ msg_idx = 3
    /\ new_messages[1].account_id = 55
    /\ new_messages[1].body = B_SMILE
    /\ new_messages[2].account_id = 55
    /\ new_messages[2].body = B_SMILE
    /\ HasCounter(user_activity_counts, Room, 55)
    /\ user_activity_counts[Room][55].stamps = 2
    /\ user_activity_counts[Room][55].last_reset_time = current_time

\* ---------------------------------------------------------------- C14
\* what the messages of a sender in a room hold, each message taken once
RECURSIVE StampsPosted(_, _)
StampsPosted(log, a) ==
    IF log = << >> THEN 0
    ELSE (IF Head(log).account_id = a THEN StampsIn[Head(log).body] ELSE 0)
         + StampsPosted(Tail(log), a)
RECURSIVE MentionsPosted(_, _)
MentionsPosted(log, a) ==
    IF log = << >> THEN 0
    ELSE (IF Head(log).account_id = a THEN MentionsIn[Head(log).body] ELSE 0)
         + MentionsPosted(Tail(log), a)

\* C14: a message delivered again after its batch was abandoned is not
\* counted again: a counter never holds more than the messages of its sender
\* in its room hold together, each taken once.
C14_CountedAtMostOnce ==
    \A r \in DOMAIN user_activity_counts : \A a \in DOMAIN user_activity_counts[r] :
        /\ user_activity_counts[r][a].stamps <= StampsPosted(room_log[r], a)
        /\ user_activity_counts[r][a].mentions <= MentionsPosted(room_log[r], a)

\* ---------------------------------------------------------------- C15
DisableOfAbsent ==
    /\ pc = "msg"
    /\ IsCommandNO(CurMsg.body)
    /\ IsAdmin(CurRole)
    /\ ~ExistingRoom(roomid_table, Room)

\* C15: '/command NO' of an administrator in a room that has no record
\* changes no record of the store, and when its calls succeed it posts the
\* 'disabled' notice and no error notice.
C15_DisableAbsentIsNoOp ==
    [][DisableOfAbsent
          => /\ roomid_table' = roomid_table
             /\ AllOk(calls')
                   => /\ CountCalls(calls', "post_message", "disabled") = 1
                      /\ ~ErrorNoticePosted(calls')]_vars

\* the administrator has disabled room 200, which had no record, while room
\* 100 keeps its record
C15_Witness ==
    /\ last_step = "msg"
    /\ Room = 200
    /\ LastMsg.body = B_NO
    /\ LastMsg.account_id = 1
    /\ AllOk(calls)
    /\ CountCalls(calls, "post_message", "disabled") = 1
    /\ 200 \notin enabled_room_ids
    /\ roomid_table[200] = 0
    /\ roomid_table[100] = 1

\* ---------------------------------------------------------------- C16
InCycle == pc \in {"refresh", "fetch", "msg", "advance", "backoff"}

\* C16: the set of enabled rooms is read once, at the start of the cycle,
\* and stays as read until the cycle ends; it alone decides whether a message
\* that is no command is moderated, whatever a command of the same cycle has
\* made of the table.
C16_SnapshotGatesCycle ==
    [][/\ (pc = "idle" /\ pc' = "refresh")
            => enabled_room_ids' = {r \in Rooms : roomid_table[r] > 0}
       /\ InCycle => enabled_room_ids' = enabled_room_ids
       /\ (pc = "msg" /\ ~CurIsCommand)
            => IF Room \in enabled_room_ids
               THEN HasCounter(user_activity_counts', Room, CurSender)
               ELSE /\ user_activity_counts' = user_activity_counts
                    /\ calls' = << >>]_vars

\* room 100 was enabled when the cycle started; the administrator's
\* '/command NO' removed its record and the member's message after it, in
\* the same batch, was counted all the same
C16_Witness ==
    /\ pc = "advance"
    /\ Room = 100
    /\ 100 \in enabled_room_ids
    /\ roomid_table[100] = 0
    /\ Len(new_messages) = 2
    /\ new_messages[1].body = B_NO /\ new_messages[1].account_id = 1
    /\ new_messages[2].body = B_SMILE /\ new_messages[2].account_id = 55
    /\ HasCounter(user_activity_counts, 100, 55)
    /\ user_activity_counts[100][55].stamps = 1

\* ---------------------------------------------------------------- C17
\* a message that is no command, in an enabled room, of a sender who has a
\* counter: the steps of lines 246-285 run on that counter
Moderated == HadCounter /\ ~CurIsCommand /\ Room \in enabled_room_ids
WindowOver == current_time - OldCounter.last_reset_time >= COUNT_RESET_INTERVAL_HOURS * SecondsPerHour
StampsCountedFrom(n) ==
    \/ NewCounter.stamps = n + StampsIn[CurMsg.body]
    \/ n + StampsIn[CurMsg.body] >= STAMP_EMOJI_THRESHOLD /\ NewCounter.stamps = 0
MentionsCountedFrom(n) ==
    \/ NewCounter.mentions = n + MentionsIn[CurMsg.body]
    \/ n + MentionsIn[CurMsg.body] >= MENTION_THRESHOLD /\ NewCounter.mentions = 0
    \/ NewCounter.mentions = n /\ ModerationFailed(calls')

\* C17: when now - lastResetAt has reached the interval, equality included,
\* both counters are 0 and lastResetAt is now before the [toall] test and
\* before the counting: a [toall] message leaves the counter at (0, 0, now)
\* and another message is counted from 0.  When the interval is not reached
\* the reset changes nothing: lastResetAt stays, a [toall] message leaves
\* the counter as it was and another message is counted from the old values.
C17_WindowReset ==
    [][Moderated =>
          IF WindowOver
          THEN /\ NewCounter.last_reset_time = current_time
               /\ IF HasToAll(CurMsg.body)
                  THEN NewCounter.stamps = 0 /\ NewCounter.mentions = 0
                  ELSE StampsCountedFrom(0) /\ MentionsCountedFrom(0)
          ELSE /\ NewCounter.last_reset_time = OldCounter.last_reset_time
               /\ IF HasToAll(CurMsg.body)
                  THEN NewCounter = OldCounter
                  ELSE /\ StampsCountedFrom(OldCounter.stamps)
                       /\ MentionsCountedFrom(OldCounter.mentions)]_vars

\* the member's ':)' was counted in room 100 at time 0; the member's [toall]
\* message, read when the age of the counter is exactly the interval, has
\* left the counter at (0, 0, now)
C17_Witness ==
    /\ last_step \in {"msg", "msg_raised"}
    /\ Room = 100
    /\ current_time = COUNT_RESET_INTERVAL_HOURS * SecondsPerHour
    /\ Len(room_log[100]) = 2
    /\ room_log[100][1].body = B_SMILE /\ room_log[100][1].account_id = 55
    /\ last_message_id_per_room[100] = room_log[100][1].message_id
    /\ LastMsg.body = B_TOALL /\ LastMsg.account_id = 55
    /\ HasCounter(user_activity_counts, 100, 55)
    /\ user_activity_counts[100][55] =
          [stamps |-> 0, mentions |-> 0, last_reset_time |-> current_time]

\* ---------------------------------------------------------------- C18
\* C18: between two message steps every counter is below its threshold:
\* stampCount < STAMP_EMOJI_THRESHOLD and mentionCount < MENTION_THRESHOLD.
C18_CountersBelowThreshold ==
    \A r \in DOMAIN user_activity_counts : \A a \in DOMAIN user_activity_counts[r] :
        /\ user_activity_counts[r][a].stamps < STAMP_EMOJI_THRESHOLD
        /\ user_activity_counts[r][a].mentions < MENTION_THRESHOLD

\* ---------------------------------------------------------------- C19
SnapshotAbsentOrOld ==
    IF Room \notin DOMAIN user_roles_per_room THEN TRUE
    ELSE current_time - user_roles_per_room[Room].last_update_time >= SecondsPerHour

\* C19: at the start of a room's processing the role snapshot is fetched
\* exactly when the room has none or its snapshot is an hour old or more; a
\* fetch that fails leaves the snapshot and its time as they were and skips
\* the room; no other step touches the snapshots, and no room is fetched or
\* has a message dispatched without a snapshot.
C19_RoleSnapshotRefresh ==
    [][/\ pc = "refresh" =>
            IF SnapshotAbsentOrOld
            THEN \/ /\ Room \in DOMAIN user_roles_per_room'
                    /\ user_roles_per_room'[Room].roles = RoleDict(members_data(Room))
                    /\ user_roles_per_room'[Room].last_update_time = current_time
                    /\ pc' = "fetch"
                 \/ /\ user_roles_per_room' = user_roles_per_room
                    /\ room_idx' = room_idx + 1
                    /\ pc' \in {"refresh", "sleep"}
            ELSE /\ user_roles_per_room' = user_roles_per_room
                 /\ pc' = "fetch"
       /\ pc # "refresh" => user_roles_per_room' = user_roles_per_room
       /\ pc' \in {"fetch", "msg", "advance"} => Room' \in DOMAIN user_roles_per_room'
      ]_vars

\* the fetch of the roles has failed for a room whose snapshot was an hour
\* old: the room was skipped and keeps the old snapshot
C19_Witness ==
    /\ last_step = "refresh_failed"
    /\ room_idx > 1
    /\ MONITORED_ROOM_IDS[room_idx - 1] \in DOMAIN user_roles_per_room
    /\ current_time - user_roles_per_room[MONITORED_ROOM_IDS[room_idx - 1]].last_update_time
          >= SecondsPerHour

\* ---------------------------------------------------------------- C20
\* the loop goes from the end of a cycle to the top of the next
CycleOver == pc \in {"backoff", "sleep"} /\ pc' = "idle"
ThroughHandler == pc = "backoff" \/ last_step = "backoff"

\* C20: the sleep between a cycle that ended in the catch-all
\* handler and the next cycle is in all twice POLLING_INTERVAL_SECONDS, and
\* after a cycle that ended normally it is once the interval.
C20_DoubleSleepAfterFailure ==
    [][CycleOver => slept' = IF ThroughHandler
                               THEN 2 * POLLING_INTERVAL_SECONDS
                               ELSE POLLING_INTERVAL_SECONDS]_vars
====
